---- MODULE Spec2Model ----
(***************************************************************************)
(* Model of scripts/fetch_correlation_data.py: main() runs                 *)
(* save_data_for_timeframe() for every configured window; each window      *)
(* fetches every token, saves the raw series, aligns the series on common  *)
(* day buckets, saves the aligned dataset and the correlations of every    *)
(* token with nillion.                                                     *)
(*                                                                         *)
(* Representation.  A Python dict is a function; its iteration order is    *)
(* its insertion order, which for token_data is the order of TOKENS.       *)
(* A price is a natural number (the script gets ints or floats from JSON;  *)
(* only "is it zero" and exact ratios matter here).  A symbol is a         *)
(* sequence of one-character strings so that lower() is a real mapping.    *)
(* A date string "YYYY-MM-DD" is the triple <<year, month, day>>.          *)
(* A file name data/correlation/<a>_<b>.json is the pair <<a, b>>.  The    *)
(* script never reads a file back: the model keeps the names of the files  *)
(* written, in order, and the content of the latest write only.            *)
(***************************************************************************)
EXTENDS Integers, Sequences, FiniteSets

VARIABLES
    pc,                \* position of the process
    tfi,               \* main: index of the current timeframe in TIMEFRAMES
    ci,                \* save_data_for_timeframe: index of the next coin to fetch
    token_data,        \* dict coin_id -> fetched series
    failed_tokens,     \* list of coin ids whose fetch gave nothing
    timestamps,        \* sorted list of all day buckets
    price_maps,        \* dict coin_id -> (dict bucket -> price)
    common_timestamps, \* list of the buckets every token has
    aligned_data,      \* [dates, prices]
    correlations,      \* dict pair key -> coefficient
    files,             \* the names of the files written so far, in the order of
                       \* the writes, and what the latest json.dump wrote
    console,           \* the notices printed by save_data_for_timeframe and main
    requests,          \* the calls of fetch_price_data so far, and whether each
                       \* returned any point
    tz,                \* UTC offset of the local time zone, in seconds
    prices1, prices2,  \* arguments of a direct call of calculate_correlation
    result             \* what that call did

vars == <<pc, tfi, ci, token_data, failed_tokens, timestamps, price_maps,
          common_timestamps, aligned_data, correlations, files, console,
          requests, tz, prices1, prices2, result>>

-----------------------------------------------------------------------------
(* Bounds of the model *)

NumSeries == 3      \* how many series of the catalogue a fetch may return
MaxLen == 2         \* longest series of the exhaustive alignment inputs
MaxDay == 1         \* last day of the exhaustive alignment inputs
MaxPrice == 1       \* largest price of the exhaustive inputs
MaxVec == 3         \* longest vector given to calculate_correlation directly

-----------------------------------------------------------------------------
(* Configuration *)

TOKENS ==
    << [id |-> "bitcoin",      sym |-> <<"B", "T", "C">>],
       [id |-> "ethereum",     sym |-> <<"E", "T", "H">>],
       [id |-> "nillion",      sym |-> <<"N", "I", "L">>],
       [id |-> "mind-network", sym |-> <<"M", "I", "N", "D">>] >>

TIMEFRAMES ==
    << [name |-> "30d", days |-> 30],
       [name |-> "90d", days |-> 90] >>

DayMs == 86400000

CoinIds == {TOKENS[i].id : i \in 1..Len(TOKENS)}

Symbol(coin_id) == (CHOOSE i \in 1..Len(TOKENS) : TOKENS[i].id = coin_id)


TokenOrder == [i \in 1..Len(TOKENS) |-> TOKENS[i].id]

\* d.keys(): the keys of a dict filled in the order of TOKENS
Keys(d) == SelectSeq(TokenOrder, LAMBDA c : c \in DOMAIN d)

\* d[k] = v
Put(d, k, v) == [x \in (DOMAIN d) \cup {k} |-> IF x = k THEN v ELSE d[x]]

EmptyDict == << >>

\* str.lower() on the letters of the symbols
LowerChar(c) ==
    CASE c = "A" -> "a" [] c = "B" -> "b" [] c = "C" -> "c" [] c = "D" -> "d"
      [] c = "E" -> "e" [] c = "F" -> "f" [] c = "G" -> "g" [] c = "H" -> "h"
      [] c = "I" -> "i" [] c = "J" -> "j" [] c = "K" -> "k" [] c = "L" -> "l"
      [] c = "M" -> "m" [] c = "N" -> "n" [] c = "O" -> "o" [] c = "P" -> "p"
      [] c = "Q" -> "q" [] c = "R" -> "r" [] c = "S" -> "s" [] c = "T" -> "t"
      [] c = "U" -> "u" [] c = "V" -> "v" [] c = "W" -> "w" [] c = "X" -> "x"
      [] c = "Y" -> "y" [] c = "Z" -> "z" [] OTHER -> c

Lower(s) == [i \in 1..Len(s) |-> LowerChar(s[i])]

\* f'nil_{token_symbol}' with token_symbol = TOKENS[coin_id].lower()
PairKey(coin_id) == <<"n", "i", "l", "_">> \o Lower(TOKENS[Symbol(coin_id)].sym)

-----------------------------------------------------------------------------
(* fetch_price_data *)

\* What the HTTP exchange can give: requests.get raises (transport),
\* raise_for_status raises (status), response.json() or data['prices'] raises
\* (parse), or the body holds a list of [timestamp, price] pairs.
FailureKinds == {"transport", "status", "parse"}

\* fetch_price_data with an except clause that lets a parse error through
fetch_price_data_uncaught(resp) ==
    IF resp.kind = "ok"
    THEN [raised |-> FALSE,
          value  |-> [i \in 1..Len(resp.prices) |->
                         [timestamp |-> resp.prices[i][1],
                          price     |-> resp.prices[i][2]]]]
    ELSE [raised |-> resp.kind = "parse", value |-> << >>]

\* The try block with its two except clauses: every exception gives [].
fetch_price_data(resp) ==
    IF resp.kind = "ok"
    THEN [raised |-> FALSE,
          value  |-> [i \in 1..Len(resp.prices) |->
                         [timestamp |-> resp.prices[i][1],
                          price     |-> resp.prices[i][2]]]]
    ELSE [raised |-> FALSE, value |-> << >>]

-----------------------------------------------------------------------------
(* calculate_correlation *)

RECURSIVE SumSeq(_)
SumSeq(s) == IF s = << >> THEN 0 ELSE Head(s) + SumSeq(Tail(s))

RECURSIVE ProdSeq(_)
ProdSeq(s) == IF s = << >> THEN 1 ELSE Head(s) * ProdSeq(Tail(s))

\* The coefficient as cov / sqrt(var1 * var2); kind "int" is the int 0 of the
\* early return, kind "nan" the not-a-number numpy gives for 0/0.
IntZero == [kind |-> "int", cov |-> 0, var1 |-> 0, var2 |-> 0]
NaN == [kind |-> "nan", cov |-> 0, var1 |-> 0, var2 |-> 0]

\* The returns <<numerator, denominator>> brought to the common denominator
\* (the product of the denominators, positive for positive prices).
Scaled(returns) ==
    LET D == ProdSeq([i \in 1..Len(returns) |-> returns[i][2]])
    IN  [i \in 1..Len(returns) |-> returns[i][1] * (D \div returns[i][2])]

\* np.corrcoef(returns1, returns2)[0, 1]: Pearson's coefficient, which does not
\* change when a vector is scaled by a positive number.  With one observation,
\* or a vector of zero variance, numpy divides 0 by 0 and gives nan (a warning,
\* no exception).
corrcoef(returns1, returns2) ==
    LET x == Scaled(returns1)
        y == Scaled(returns2)
        n == Len(x)
        sx == SumSeq(x)
        sy == SumSeq(y)
        sxy == n * SumSeq([i \in 1..n |-> x[i] * y[i]]) - sx * sy
        sxx == n * SumSeq([i \in 1..n |-> x[i] * x[i]]) - sx * sx
        syy == n * SumSeq([i \in 1..n |-> y[i] * y[i]]) - sy * sy
    IN  IF sxx = 0 \/ syy = 0
        THEN NaN
        ELSE [kind |-> "float", cov |-> sxy, var1 |-> sxx, var2 |-> syy]

\* (prices[i] - prices[i-1]) / prices[i-1] for i in range(1, len(prices))
Returns(prices) ==
    [i \in 1..(Len(prices) - 1) |-> <<prices[i + 1] - prices[i], prices[i]>>]

\* The division of Python numbers raises ZeroDivisionError on a zero divisor.
DivisionRaises(prices) == \E i \in 1..(Len(prices) - 1) : prices[i] = 0

\* calculate_correlation whose guard forgets the comparison of the lengths:
\* the loop then indexes past the end of the shorter prices2
calculate_correlation_unguarded(p1, p2) ==
    IF Len(p1) < 2
    THEN [raised |-> FALSE, value |-> IntZero, returns |-> 0]
    ELSE IF DivisionRaises(p1) \/ DivisionRaises(p2) \/ Len(p1) # Len(p2)
    THEN [raised |-> TRUE, value |-> NaN, returns |-> 0]
    ELSE [raised |-> FALSE,
          value  |-> corrcoef(Returns(p1), Returns(p2)),
          returns |-> 2 * (Len(p1) - 1)]

calculate_correlation(p1, p2) ==
    IF Len(p1) # Len(p2) \/ Len(p1) < 2
    THEN [raised |-> FALSE, value |-> IntZero, returns |-> 0]
    ELSE IF DivisionRaises(p1) \/ DivisionRaises(p2)
    THEN [raised |-> TRUE, value |-> NaN, returns |-> 0]
    ELSE [raised |-> FALSE,
          value  |-> corrcoef(Returns(p1), Returns(p2)),
          returns |-> 2 * (Len(p1) - 1)]

-----------------------------------------------------------------------------
(* The alignment of save_data_for_timeframe *)

\* the bucket without the floor division
BucketUnfloored(timestamp) == timestamp

\* point['timestamp'] // 86400000 * 86400000
Bucket(timestamp) == (timestamp \div DayMs) * DayMs

\* lines 151-156: the set of the buckets of every point of every token
BucketSet(td) ==
    UNION { {Bucket(td[c][i].timestamp) : i \in 1..Len(td[c])} : c \in DOMAIN td }

\* sorted(timestamps)
RECURSIVE Sorted(_)
Sorted(S) ==
    IF S = {} THEN << >>
    ELSE LET m == CHOOSE x \in S : \A y \in S : x <= y
         IN  <<m>> \o Sorted(S \ {m})

\* lines 163-166: price_map[timestamp] = point['price'] for the points in order
RECURSIVE PriceMap(_, _)
PriceMap(data, pm) ==
    IF data = << >> THEN pm
    ELSE PriceMap(Tail(data),
                  Put(pm, Bucket(Head(data).timestamp), Head(data).price))

\* price maps in which the first point of a bucket is kept
RECURSIVE PriceMapFirst(_, _)
PriceMapFirst(data, pm) ==
    IF data = << >> THEN pm
    ELSE LET b == Bucket(Head(data).timestamp)
         IN  PriceMapFirst(Tail(data),
                           IF b \in DOMAIN pm THEN pm ELSE Put(pm, b, Head(data).price))

PriceMapsFirst(td) == [c \in DOMAIN td |-> PriceMapFirst(td[c], EmptyDict)]

PriceMaps(td) == [c \in DOMAIN td |-> PriceMap(td[c], EmptyDict)]

\* lines 179-182
CommonTimestamps(ts, pms, td) ==
    SelectSeq(ts, LAMBDA t : \A c \in DOMAIN td : t \in DOMAIN pms[c])

\* days since 1970-01-01 to <<year, month, day>> (proleptic Gregorian calendar)
CivilFromDays(days) ==
    LET z   == days + 719468
        era == z \div 146097
        doe == z - era * 146097
        yoe == (doe - doe \div 1460 + doe \div 36524 - doe \div 146096) \div 365
        doy == doe - (365 * yoe + yoe \div 4 - yoe \div 100)
        mp  == (5 * doy + 2) \div 153
        d   == doy - (153 * mp + 2) \div 5 + 1
        m   == IF mp < 10 THEN mp + 3 ELSE mp - 9
        y   == yoe + era * 400 + (IF m <= 2 THEN 1 ELSE 0)
    IN  <<y, m, d>>

\* datetime.fromtimestamp(ts / 1000).strftime('%Y-%m-%d'): the local date
DateStr(ts, offset) == CivilFromDays(((ts \div 1000) + offset) \div 86400)

\* aligned arrays whose prices are appended at the front
AlignedDataReversed(common, pms, td, offset) ==
    [dates  |-> [i \in 1..Len(common) |-> DateStr(common[i], offset)],
     prices |-> [c \in DOMAIN td |->
                    [i \in 1..Len(common) |-> pms[c][common[Len(common) + 1 - i]]]]]

\* lines 170-176 and 189-194
AlignedData(common, pms, td, offset) ==
    [dates  |-> [i \in 1..Len(common) |-> DateStr(common[i], offset)],
     prices |-> [c \in DOMAIN td |->
                    [i \in 1..Len(common) |-> pms[c][common[i]]]]]

EmptyAligned == [dates |-> << >>, prices |-> EmptyDict]

-----------------------------------------------------------------------------
(* The inputs *)

Day(n) == n * DayMs
Noon(n) == n * DayMs + DayMs \div 2

\* The price lists a successful fetch of the pipeline may carry, as the API
\* gives them: [timestamp, price] pairs.
Catalogue ==
    << << <<Day(0), 1>>, <<Day(1), 2>>, <<Day(2), 3>> >>,
       << <<Noon(1), 4>>, <<Day(2), 3>>, <<Noon(2), 0>>, <<Day(3), 2>> >>,
       << <<Day(3), 5>>, <<Day(4), 5>> >>,
       << <<Day(1), 4>>, <<Day(0), 2>>, <<Noon(1), 1>>, <<Day(2), 2>> >>,
       << <<Noon(4), 1>> >> >>

CatalogueSet ==
    {Catalogue[i] : i \in 1..(IF NumSeries < Len(Catalogue) THEN NumSeries
                               ELSE Len(Catalogue))}

Responses ==
    [kind : FailureKinds, prices : {<< >>}]
      \cup [kind : {"ok"}, prices : CatalogueSet \cup {<< >>}]

\* Every series of at most MaxLen points on the days 0..MaxDay (at midnight or
\* at noon) with prices 0..MaxPrice.
Points ==
    [timestamp : {Day(d) : d \in 0..MaxDay} \cup {Noon(d) : d \in 0..MaxDay},
     price : 0..MaxPrice]

SeqsUpTo(S, n) == UNION {[1..k -> S] : k \in 0..n}

SeriesSet == SeqsUpTo(Points, MaxLen) \ {<< >>}

TzOffsets == {-18000, 0}

-----------------------------------------------------------------------------
(* The process *)

Timeframe == TIMEFRAMES[tfi]

RawFile(coin_id, name) == <<coin_id, name>>
AlignedFile(name) == <<"aligned", name>>
CorrelationFile(name) == <<"correlation", name>>

NoFiles == [written |-> << >>, last |-> << >>]

\* with open(name, 'w') as f: json.dump(content, f)
Write(fs, name, content) == [written |-> Append(fs.written, name), last |-> content]
Notice(out, what, arg) == Append(out, <<what, arg>>)

\* the raw data saved whether there are any or not
SaveRawAlways(fs, coin_id, name, price_data) ==
    Write(fs, RawFile(coin_id, name), price_data)

\* lines 127-131: the raw data of a token are saved when there are any
SaveRaw(fs, coin_id, name, price_data) ==
    IF price_data # << >>
    THEN Write(fs, RawFile(coin_id, name), price_data)
    ELSE fs

Request(coin_id, days, price_data) ==
    [coin_id |-> coin_id, days |-> days, ok |-> price_data # << >>]

NoResult == [raised |-> FALSE, value |-> IntZero, returns |-> 0]

Init ==
    /\ pc = "main"
    /\ tfi = 1
    /\ ci = 1
    /\ token_data = EmptyDict
    /\ failed_tokens = << >>
    /\ timestamps = << >>
    /\ price_maps = EmptyDict
    /\ common_timestamps = << >>
    /\ aligned_data = EmptyAligned
    /\ correlations = EmptyDict
    /\ files = NoFiles
    /\ console = << >>
    /\ requests = << >>
    /\ tz \in TzOffsets
    /\ prices1 = << >>
    /\ prices2 = << >>
    /\ result = NoResult

direct == <<prices1, prices2, result>>

\* main, line 224-225: the next timeframe; save_data_for_timeframe starts
\* (lines 115-122)
MainLoop ==
    /\ pc = "main"
    /\ tfi <= Len(TIMEFRAMES)
    /\ pc' = "fetch"
    /\ ci' = 1
    /\ token_data' = EmptyDict
    /\ failed_tokens' = << >>
    /\ console' = Notice(console, "fetching", Timeframe.name)
    /\ UNCHANGED <<tfi, timestamps, price_maps, common_timestamps, aligned_data,
                   correlations, files, requests, tz, direct>>

\* main, line 227
MainComplete ==
    /\ pc = "main"
    /\ tfi > Len(TIMEFRAMES)
    /\ pc' = "done"
    /\ console' = Notice(console, "complete", "")
    /\ UNCHANGED <<tfi, ci, token_data, failed_tokens, timestamps, price_maps,
                   common_timestamps, aligned_data, correlations, files,
                   requests, tz, direct>>

\* lines 124-137: one turn of the fetch loop
Fetch ==
    /\ pc = "fetch"
    /\ ci <= Len(TOKENS)
    /\ \E resp \in Responses :
         LET coin_id == TOKENS[ci].id
             got == fetch_price_data(resp)
             price_data == got.value
         IN  /\ requests' = Append(requests,
                                    Request(coin_id, Timeframe.days, price_data))
             /\ IF got.raised
                THEN /\ pc' = "raised"
                     /\ UNCHANGED <<ci, token_data, failed_tokens, files, console>>
                ELSE /\ pc' = IF ci = Len(TOKENS) THEN "check" ELSE "fetch"
                     /\ ci' = ci + 1
                     /\ files' = SaveRaw(files, coin_id, Timeframe.name, price_data)
                     /\ IF price_data # << >>
                        THEN /\ token_data' = Put(token_data, coin_id, price_data)
                             /\ UNCHANGED <<failed_tokens, console>>
                        ELSE /\ failed_tokens' = Append(failed_tokens, coin_id)
                             /\ console' = Notice(console, "warning_failed", coin_id)
                             /\ UNCHANGED token_data
    /\ UNCHANGED <<tfi, timestamps, price_maps, common_timestamps, aligned_data,
                   correlations, tz, direct>>

\* lines 139-148: enough data to proceed?
Enough(td) == Cardinality(DOMAIN td) >= 2
HasReference(td) == "nillion" \in DOMAIN td

Check ==
    /\ pc = "check"
    /\ IF ~Enough(token_data)
       THEN /\ console' = Notice(console, "error_not_enough", Timeframe.name)
            /\ pc' = "returned"
       ELSE IF ~HasReference(token_data)
       THEN /\ console' = Notice(console, "error_nillion_missing", Timeframe.name)
            /\ pc' = "returned"
       ELSE /\ console' = Notice(console, "processing", Timeframe.name)
            /\ pc' = "align"
    /\ UNCHANGED <<tfi, ci, token_data, failed_tokens, timestamps, price_maps,
                   common_timestamps, aligned_data, correlations, files,
                   requests, tz, direct>>

\* line 184 without its test
NoCommonIgnored(common) == FALSE

\* line 184: if not common_timestamps
NoCommon(common) == common = << >>

\* lines 150-186: buckets, price maps, common timestamps
Align ==
    /\ pc = "align"
    /\ LET ts  == Sorted(BucketSet(token_data))
           pms == PriceMaps(token_data)
           common == CommonTimestamps(ts, pms, token_data)
       IN  /\ timestamps' = ts
           /\ price_maps' = pms
           /\ common_timestamps' = common
           /\ aligned_data' = [dates  |-> << >>,
                               prices |-> [c \in DOMAIN token_data |-> << >>]]
           /\ IF NoCommon(common)
              THEN /\ console' = Notice(console, "error_no_common", Timeframe.name)
                   /\ pc' = "returned"
              ELSE /\ console' = console
                   /\ pc' = "save"
    /\ UNCHANGED <<tfi, ci, token_data, failed_tokens, correlations, files,
                   requests, tz, direct>>

\* lines 188-199: the aligned arrays, saved
SaveAligned ==
    /\ pc = "save"
    /\ LET ad == AlignedData(common_timestamps, price_maps, token_data, tz)
       IN  /\ aligned_data' = ad
           /\ files' = Write(files, AlignedFile(Timeframe.name), ad)
    /\ pc' = "correlate"
    /\ UNCHANGED <<tfi, ci, token_data, failed_tokens, timestamps, price_maps,
                   common_timestamps, correlations, console, requests, tz, direct>>

\* line 202 with len(dates) > 0
CorrelatesFromOneDate(ad) == "nillion" \in DOMAIN ad.prices /\ Len(ad.dates) > 0

\* line 202
Correlates(ad) == "nillion" \in DOMAIN ad.prices /\ Len(ad.dates) > 1

\* lines 205-211: the calls of calculate_correlation, in the order of the tokens
CorrelationCalls(ad, td) ==
    LET others == SelectSeq(Keys(td), LAMBDA c : c # "nillion")
    IN  [i \in 1..Len(others) |->
           [coin_id |-> others[i],
            call    |-> calculate_correlation(ad.prices["nillion"],
                                              ad.prices[others[i]])]]

\* lines 201-220: the correlations, saved; an exception of
\* calculate_correlation is caught nowhere and ends the process
Correlate ==
    /\ pc = "correlate"
    /\ IF Correlates(aligned_data)
       THEN LET calls == CorrelationCalls(aligned_data, token_data)
            IN  IF \E i \in 1..Len(calls) : calls[i].call.raised
                THEN /\ pc' = "raised"
                     /\ UNCHANGED <<correlations, files, console>>
                ELSE LET corr == [k \in {PairKey(calls[i].coin_id) : i \in 1..Len(calls)} |->
                                    LET i == CHOOSE j \in 1..Len(calls) :
                                                 PairKey(calls[j].coin_id) = k
                                    IN  calls[i].call.value]
                     IN  /\ correlations' = corr
                         /\ files' = Write(files, CorrelationFile(Timeframe.name), corr)
                         /\ console' = Notice(console, "correlations", Timeframe.name)
                         /\ pc' = "returned"
       ELSE /\ pc' = "returned"
            /\ UNCHANGED <<correlations, files, console>>
    /\ UNCHANGED <<tfi, ci, token_data, failed_tokens, timestamps, price_maps,
                   common_timestamps, aligned_data, requests, tz, direct>>

\* save_data_for_timeframe returns to main: its locals are gone
Return ==
    /\ pc = "returned"
    /\ pc' = "main"
    /\ tfi' = tfi + 1
    /\ ci' = 1
    /\ token_data' = EmptyDict
    /\ failed_tokens' = << >>
    /\ timestamps' = << >>
    /\ price_maps' = EmptyDict
    /\ common_timestamps' = << >>
    /\ aligned_data' = EmptyAligned
    /\ correlations' = EmptyDict
    /\ UNCHANGED <<files, console, requests, tz, direct>>

Next ==
    \/ MainLoop
    \/ Fetch
    \/ Check
    \/ Align
    \/ SaveAligned
    \/ Correlate
    \/ Return
    \/ MainComplete

Spec == Init /\ [][Next]_vars

-----------------------------------------------------------------------------
(* save_data_for_timeframe from the end of its fetch loop, on every small     *)
(* input: nillion and one other token were fetched, one of the two with a     *)
(* series of the catalogue, the other with any series of SeriesSet.           *)

Fetched(prices) == fetch_price_data([kind |-> "ok", prices |-> prices]).value

AfterFetchLoop(td) ==
    LET name == TIMEFRAMES[1].name
        days == TIMEFRAMES[1].days
        got(c) == IF c \in DOMAIN td THEN td[c] ELSE << >>
        failed == SelectSeq(TokenOrder, LAMBDA c : c \notin DOMAIN td)
        kept == Keys(td)
    IN  /\ pc = "check"
        /\ tfi = 1
        /\ ci = Len(TOKENS) + 1
        /\ token_data = td
        /\ failed_tokens = failed
        /\ timestamps = << >>
        /\ price_maps = EmptyDict
        /\ common_timestamps = << >>
        /\ aligned_data = EmptyAligned
        /\ correlations = EmptyDict
        /\ files = [written |-> [i \in 1..Len(kept) |-> RawFile(kept[i], name)],
                     last    |-> td[kept[Len(kept)]]]
        /\ console = <<<<"fetching", name>>>>
                       \o [i \in 1..Len(failed) |-> <<"warning_failed", failed[i]>>]
        /\ requests = [i \in 1..Len(TOKENS) |->
                         Request(TokenOrder[i], days, got(TokenOrder[i]))]
        /\ prices1 = << >>
        /\ prices2 = << >>
        /\ result = NoResult

InitAlign ==
    /\ tz \in TzOffsets
    /\ \E free \in CoinIds, other \in CoinIds,
          s \in SeriesSet, k \in CatalogueSet :
         /\ free # other
         /\ "nillion" \in {free, other}
         /\ AfterFetchLoop([c \in {free, other} |->
                              IF c = free THEN s ELSE Fetched(k)])

NextAlign ==
    \/ Check
    \/ Align
    \/ SaveAligned
    \/ Correlate

SpecAlign == InitAlign /\ [][NextAlign]_vars

-----------------------------------------------------------------------------
(* calculate_correlation called on every pair of small vectors *)

InitCorr ==
    /\ pc = "call"
    /\ prices1 \in SeqsUpTo(0..MaxPrice, MaxVec)
    /\ prices2 \in SeqsUpTo(0..MaxPrice, MaxVec)
    /\ result = NoResult
    /\ tfi = 1
    /\ ci = 1
    /\ token_data = EmptyDict
    /\ failed_tokens = << >>
    /\ timestamps = << >>
    /\ price_maps = EmptyDict
    /\ common_timestamps = << >>
    /\ aligned_data = EmptyAligned
    /\ correlations = EmptyDict
    /\ files = NoFiles
    /\ console = << >>
    /\ requests = << >>
    /\ tz = 0

CallCorrelation ==
    /\ pc = "call"
    /\ result' = calculate_correlation(prices1, prices2)
    /\ pc' = IF result'.raised THEN "raised" ELSE "ret"
    /\ UNCHANGED <<tfi, ci, token_data, failed_tokens, timestamps, price_maps,
                   common_timestamps, aligned_data, correlations, files,
                   console, requests, tz, prices1, prices2>>

NextCorr == CallCorrelation

SpecCorr == InitCorr /\ [][NextCorr]_vars

-----------------------------------------------------------------------------
(* What the properties speak of *)

Windows == 1..Len(TIMEFRAMES)
WindowName(w) == TIMEFRAMES[w].name

\* the calls of fetch_price_data made for window w, in their order
RequestsOf(w) == SelectSeq(requests, LAMBDA r : r.days = TIMEFRAMES[w].days)
RequestedCoins(w) == [i \in 1..Len(RequestsOf(w)) |-> RequestsOf(w)[i].coin_id]
FetchedOk(w) ==
    {RequestsOf(w)[i].coin_id : i \in {j \in 1..Len(RequestsOf(w)) : RequestsOf(w)[j].ok}}
FetchedEmpty(w) ==
    {RequestsOf(w)[i].coin_id : i \in {j \in 1..Len(RequestsOf(w)) : ~RequestsOf(w)[j].ok}}
FetchLoopOver(w) == Len(RequestsOf(w)) = Len(TOKENS)

Insufficient(w) ==
    FetchLoopOver(w) /\ (Cardinality(FetchedOk(w)) < 2 \/ "nillion" \notin FetchedOk(w))
Passes(w) ==
    FetchLoopOver(w) /\ Cardinality(FetchedOk(w)) >= 2 /\ "nillion" \in FetchedOk(w)

WritesOf(name) == {i \in 1..Len(files.written) : files.written[i] = name}
Written(name) == WritesOf(name) # {}
\* name is the file written last, with this content
LatestWrite(name, content) ==
    /\ files.written # << >>
    /\ files.written[Len(files.written)] = name
    /\ files.last = content
Before(name1, name2) == \A i \in WritesOf(name1), j \in WritesOf(name2) : i < j

\* save_data_for_timeframe is running or has just ended, its locals at hand
InCall == pc \in {"fetch", "check", "align", "save", "correlate", "returned", "raised"}
\* the alignment of lines 150-182 has been done
Aligned == pc \in {"save", "correlate", "returned", "raised"} /\ DOMAIN price_maps # {}
\* the aligned dataset of the window has been produced
Produced == pc \in {"correlate", "returned", "raised"}
              /\ Written(AlignedFile(WindowName(tfi)))

\* the start of the UTC day of a timestamp
DayOf(t) == t - (t % DayMs)
DaysOf(data) == {DayOf(data[i].timestamp) : i \in 1..Len(data)}
SharedDays(td) == {b \in UNION {DaysOf(td[c]) : c \in DOMAIN td} :
                     \A c \in DOMAIN td : b \in DaysOf(td[c])}
\* the price of the last point of data that falls on day b
LastPriceOn(data, b) ==
    LET on == {i \in 1..Len(data) : DayOf(data[i].timestamp) = b}
    IN  data[CHOOSE i \in on : \A j \in on : j <= i].price
Range(q) == {q[i] : i \in 1..Len(q)}

ExpectedKey(coin_id) ==
    CASE coin_id = "bitcoin"      -> <<"n", "i", "l", "_", "b", "t", "c">>
      [] coin_id = "ethereum"     -> <<"n", "i", "l", "_", "e", "t", "h">>
      [] coin_id = "nillion"      -> <<"n", "i", "l", "_", "n", "i", "l">>
      [] coin_id = "mind-network" -> <<"n", "i", "l", "_", "m", "i", "n", "d">>

CorrelationFileAfterAligned(w) ==
    /\ Cardinality(WritesOf(CorrelationFile(WindowName(w)))) = 1
    /\ Written(AlignedFile(WindowName(w)))
    /\ Before(AlignedFile(WindowName(w)), CorrelationFile(WindowName(w)))

\* the correlation file of window w was written last, with the right keys
CorrelationFileRight(w) ==
    /\ CorrelationFileAfterAligned(w)
    /\ files.written[Len(files.written)] = CorrelationFile(WindowName(w))
    /\ DOMAIN files.last = {ExpectedKey(c) : c \in FetchedOk(w) \ {"nillion"}}
    /\ files.last = correlations

-----------------------------------------------------------------------------
(* C1 *)

\* C1: whenever the fetches of a window left fewer than 2 tokens, or left
\* nillion out, no aligned dataset file and no correlation file is written for
\* that window, and the run is not cut short: main goes on to the next window
\* and to its completion notice.  (Stated as the claim states it; the run can
\* be cut short by the exception of C3 in a later window.)
C1_InsufficientWindowSkippedAndRunCompletes ==
    \A w \in Windows :
        Insufficient(w) =>
            /\ ~Written(AlignedFile(WindowName(w)))
            /\ ~Written(CorrelationFile(WindowName(w)))
            /\ pc # "raised"

-----------------------------------------------------------------------------
(* C2 *)

-----------------------------------------------------------------------------
(* C3 *)

\* C3: no failure aborts the run: calculate_correlation never raises, so the
\* process never ends on an uncaught exception.
C3_NoFailureAbortsTheRun == pc # "raised"

-----------------------------------------------------------------------------
(* C4 *)

\* C4 as claimed: a window that passed the checks, has a non-empty common
\* timeline (one day is enough) and has returned, has its aligned dataset file
\* and, written after it, a correlation file with one entry nil_<symbol> for
\* every fetched token other than nillion.
C4_CorrelationFileForAnyCommonTimeline ==
    (pc = "returned" /\ Passes(tfi) /\ Aligned /\ common_timestamps # << >>) =>
        /\ Written(AlignedFile(WindowName(tfi)))
        /\ Written(CorrelationFile(WindowName(tfi)))
        /\ CorrelationFileRight(tfi)

\* C4 amended: a window that passed the checks and has a non-empty common
\* timeline has its aligned dataset file; its correlation file is written
\* exactly when the common timeline has at least two days and the function
\* returns (none for one common day, none when calculate_correlation raised);
\* every correlation file written comes after the aligned dataset file of its
\* window and has one entry nil_<symbol> for every fetched token other than
\* nillion.
C4_CorrelationFileFromTwoCommonDays ==
    /\ (pc \in {"returned", "raised"} /\ Passes(tfi) /\ Aligned
          /\ common_timestamps # << >>) =>
           /\ Cardinality(WritesOf(AlignedFile(WindowName(tfi)))) = 1
           /\ Written(CorrelationFile(WindowName(tfi)))
                <=> (pc = "returned" /\ Len(common_timestamps) >= 2)
           /\ Written(CorrelationFile(WindowName(tfi))) => CorrelationFileRight(tfi)
           /\ ~Written(CorrelationFile(WindowName(tfi))) =>
                LatestWrite(AlignedFile(WindowName(tfi)), aligned_data)
           /\ pc = "raised" =>
                /\ Len(common_timestamps) >= 2
                /\ \E c \in DOMAIN token_data :
                     \E i \in 1..(Len(common_timestamps) - 1) :
                        LastPriceOn(token_data[c], common_timestamps[i]) = 0
    /\ \A w \in Windows :
           Written(CorrelationFile(WindowName(w))) => CorrelationFileAfterAligned(w)

\* a window of three tokens has returned with its correlation file
C4_Witness ==
    /\ pc = "returned"
    /\ Passes(tfi)
    /\ Cardinality(FetchedOk(tfi)) = 3
    /\ Len(common_timestamps) >= 2
    /\ CorrelationFileRight(tfi)

-----------------------------------------------------------------------------
(* C5 *)

\* C5: in every aligned dataset produced, the tokens of prices are exactly the
\* tokens fetched with data, every price list is as long as dates, dates[i] is
\* the date of the i-th common day, and prices[token][i] is the token's price
\* of that day (the price of its last point on that day).
C5_AlignedDatasetIsRectangular ==
    Produced =>
        /\ (pc = "correlate" \/ ~Written(CorrelationFile(WindowName(tfi)))) =>
               LatestWrite(AlignedFile(WindowName(tfi)), aligned_data)
        /\ DOMAIN aligned_data.prices = FetchedOk(tfi)
        /\ Len(aligned_data.dates) = Len(common_timestamps)
        /\ \A i \in 1..Len(aligned_data.dates) :
               aligned_data.dates[i] = DateStr(common_timestamps[i], tz)
        /\ \A c \in DOMAIN aligned_data.prices :
               /\ Len(aligned_data.prices[c]) = Len(aligned_data.dates)
               /\ \A i \in 1..Len(aligned_data.dates) :
                      aligned_data.prices[c][i]
                        = LastPriceOn(token_data[c], common_timestamps[i])

\* an aligned dataset of two dates on which a token has two different prices
C5_Witness ==
    /\ Produced
    /\ Len(aligned_data.dates) = 2
    /\ aligned_data.dates[1] # aligned_data.dates[2]
    /\ \E c \in DOMAIN aligned_data.prices :
           aligned_data.prices[c][1] # aligned_data.prices[c][2]

-----------------------------------------------------------------------------
(* C6 *)

\* C6 as claimed: raw series files exist only for windows that passed the
\* sufficiency checks: none is written during the fetch loop or before the
\* check, and none in a window that fails the check.
C6_RawFilesOnlyAfterPassedCheck ==
    \A w \in Windows : \A c \in CoinIds :
        Written(RawFile(c, WindowName(w))) => Passes(w)

\* C6 amended: the raw series file of a token is written in the fetch loop,
\* as soon as its fetch returned data and before the sufficiency checks, in
\* passing and failing windows alike: at every moment the raw files of a
\* window are exactly those of the tokens fetched with data so far, each
\* written once, holding the fetched series, and before the aligned dataset
\* file of the window.
C6_RawFilesWrittenInFetchLoop ==
    \A w \in Windows : \A c \in CoinIds :
        /\ Written(RawFile(c, WindowName(w))) <=> c \in FetchedOk(w)
        /\ Cardinality(WritesOf(RawFile(c, WindowName(w)))) <= 1
        /\ Before(RawFile(c, WindowName(w)), AlignedFile(WindowName(w)))
        /\ (w = tfi /\ pc \in {"fetch", "check", "align", "save"}
               /\ c \in DOMAIN token_data
               /\ \A i \in 1..Len(TOKENS) :
                      TOKENS[i].id \in DOMAIN token_data => i <= Symbol(c)) =>
               LatestWrite(RawFile(c, WindowName(w)), token_data[c])

\* a window failed the check and has returned, with a raw file written
C6_Witness ==
    /\ pc = "returned"
    /\ Insufficient(tfi)
    /\ \E c \in CoinIds : Written(RawFile(c, WindowName(tfi)))

-----------------------------------------------------------------------------
(* C7 *)

-----------------------------------------------------------------------------
(* C8 *)

\* C8: the price map of every token has exactly the UTC days of its points,
\* and the price of a day is the price of the last point of the series that
\* falls on that day.
C8_LastSampleOfTheDayWins ==
    Aligned =>
        \A c \in DOMAIN token_data :
            /\ DOMAIN price_maps[c] = DaysOf(token_data[c])
            /\ \A b \in DOMAIN price_maps[c] :
                   price_maps[c][b] = LastPriceOn(token_data[c], b)

\* a token with two points on one day, at different prices
C8_Witness ==
    /\ Aligned
    /\ \E c \in DOMAIN token_data : \E i, j \in 1..Len(token_data[c]) :
           /\ i < j
           /\ DayOf(token_data[c][i].timestamp) = DayOf(token_data[c][j].timestamp)
           /\ token_data[c][i].price # token_data[c][j].price

-----------------------------------------------------------------------------
(* C9 *)

\* C9: called on two vectors of different lengths, or of a length below 2,
\* calculate_correlation returns the int 0, raises nothing and computes no
\* return.
C9_SentinelOnShortOrUnequalVectors ==
    (pc # "call" /\ (Len(prices1) # Len(prices2) \/ Len(prices1) < 2)) =>
        /\ pc = "ret"
        /\ result = [raised |-> FALSE, value |-> IntZero, returns |-> 0]

\* a call on vectors of lengths 3 and 2, the first with a zero price that a
\* return would have divided by, has returned
C9_Witness ==
    /\ pc = "ret"
    /\ Len(prices1) = 3
    /\ Len(prices2) = 2
    /\ prices1[1] = 0

-----------------------------------------------------------------------------
(* C10 *)

====
